---- MODULE Spec2Model ----
(***************************************************************************)
(* Model of the in-memory limit order book of                              *)
(* src/src/order_book/limit_order_book.rs: the two price-time ordered      *)
(* sequences buy_orders / sell_orders, place_order (matching scan, removal *)
(* of filled orders, resting of the remainder through add_order) and the   *)
(* best_buy / best_sell queries.                                           *)
(*                                                                         *)
(* Spec is the sequential view: every action is one whole call of the      *)
(* OrderBook trait, made while no other call is in flight.                 *)
(*                                                                         *)
(* ConcSpec is the concurrent view: several callers run place_order and    *)
(* best_buy / best_sell step by step, a step being what a task does        *)
(* between two lock operations on the per-side tokio RwLocks.              *)
(***************************************************************************)
EXTENDS Integers, Sequences, FiniteSets, TLC

(* ------------------------------ bounds --------------------------------- *)
MaxOrders == 3      \* number of place_order calls in one behaviour
MaxPrice == 2       \* prices are drawn from 1..MaxPrice
MaxQty == 2         \* quantities are drawn from 0..MaxQty
MaxTime == 1        \* the clock reads 0..MaxTime
NumCallers == 2     \* number of concurrent callers (tasks) in ConcSpec
ConcOrders == 2     \* number of place_order calls in ConcSpec

Sides == {"Buy", "Sell"}
Prices == 1..MaxPrice
Quantities == 0..MaxQty
Times == 0..MaxTime
Callers == 1..NumCallers

(* ---------------------------- data model -------------------------------- *)
\* models.rs Order::new; `now` is what util::current_unix_timestamp()
\* returned.
Order_new(id, side, price, quantity, now) ==
    [id |-> id, side |-> side, price |-> price, quantity |-> quantity,
     timestamp |-> now]

\* models.rs Trade::new
Trade_new(maker_id, taker_id, price, quantity) ==
    [maker_id |-> maker_id, taker_id |-> taker_id,
     price |-> price, quantity |-> quantity]

\* Option<T>: None is the empty sequence, Some(x) the one-element sequence.
None == << >>
Some(x) == << x >>

VARIABLES
    buy_orders,         \* LimitOrderBook.buy_orders
    sell_orders,        \* LimitOrderBook.sell_orders
    clock,              \* last value read from the timestamp source
    submitted,          \* number of place_order calls made so far
    op,                 \* the call that has just returned
    order,              \* its argument (place_order)
    trades,             \* its return value (place_order)
    remaining_quantity, \* place_order_internal's local after the scan
    opp_before,         \* opposite side when the call began
    opp_scanned,        \* opposite side after the for loop, before the filter
    own_before,         \* the submission's own side when the call began
    rested,             \* the order add_order was given, as an Option
    best,               \* return value of best_buy / best_sell
    \* ConcSpec only:
    log_enabled,        \* the log level lets info! evaluate its arguments
    locks,              \* per side: the writer (0 if none) and the readers
    queue,              \* per side: the callers waiting for the lock, in order
    pc,                 \* per caller: where its call stands
    call,               \* per caller: the locals of its call
    gap,                \* per caller: what others did in its two-phase gap
    submitted_quantity, \* sum of the quantities of the submitted orders
    returned_quantity   \* sum of the quantities of the trades returned

\* the book and the clock
bvars == << buy_orders, sell_orders, clock, submitted >>
\* the record of the last call of the sequential view
svars == << op, order, trades, remaining_quantity, opp_before, opp_scanned,
            own_before, rested, best >>
\* the tasks of the concurrent view
cvars == << log_enabled, locks, queue, pc, call, gap, submitted_quantity,
            returned_quantity >>

vars == << bvars, svars, cvars >>

\* util::current_unix_timestamp(): the values the next read of the clock may
\* return.  The clock does not run backwards.
current_unix_timestamp == clock..MaxTime

\* Ids are unique across the book's lifetime and are only ever compared for
\* equality (line 112): the n-th submission is given the id n.
next_id == submitted + 1

(* ------------------------- place_order_internal ------------------------- *)
\* order_price_ok with the two arms exchanged
order_price_ok_swapped(o, curr_order) ==
    IF o.side = "Buy" THEN curr_order.price >= o.price
                      ELSE curr_order.price <= o.price

\* lines 33-36: order_price_ok
order_price_ok(o, curr_order) ==
    IF o.side = "Buy" THEN curr_order.price <= o.price
                      ELSE curr_order.price >= o.price

\* the for loop, with the trades made at the incoming order's price
RECURSIVE scan_at_taker_price(_, _, _, _, _)
scan_at_taker_price(lock, i, o, remaining, ts) ==
    IF i > Len(lock)
    THEN [lock |-> lock, remaining_quantity |-> remaining, trades |-> ts]
    ELSE LET curr_order == lock[i] IN
         IF order_price_ok(o, curr_order) /\ remaining > 0
         THEN IF curr_order.quantity > remaining
              THEN [lock |-> [lock EXCEPT ![i].quantity = @ - remaining],
                    remaining_quantity |-> 0,
                    trades |-> Append(ts, Trade_new(curr_order.id, o.id,
                                          o.price, remaining))]
              ELSE scan_at_taker_price([lock EXCEPT ![i].quantity = 0], i + 1,
                        o, remaining - curr_order.quantity,
                        Append(ts, Trade_new(curr_order.id, o.id,
                                   o.price, curr_order.quantity)))
         ELSE [lock |-> lock, remaining_quantity |-> remaining, trades |-> ts]

\* the for loop without the test remaining_quantity > 0 of line 37
RECURSIVE scan_without_remaining_test(_, _, _, _, _)
scan_without_remaining_test(lock, i, o, remaining, ts) ==
    IF i > Len(lock)
    THEN [lock |-> lock, remaining_quantity |-> remaining, trades |-> ts]
    ELSE LET curr_order == lock[i] IN
         IF order_price_ok(o, curr_order)
         THEN IF curr_order.quantity > remaining
              THEN [lock |-> [lock EXCEPT ![i].quantity = @ - remaining],
                    remaining_quantity |-> 0,
                    trades |-> Append(ts, Trade_new(curr_order.id, o.id,
                                          curr_order.price, remaining))]
              ELSE scan_without_remaining_test(
                        [lock EXCEPT ![i].quantity = 0], i + 1, o,
                        remaining - curr_order.quantity,
                        Append(ts, Trade_new(curr_order.id, o.id,
                                   curr_order.price, curr_order.quantity)))
         ELSE [lock |-> lock, remaining_quantity |-> remaining, trades |-> ts]

\* lines 32-65: the for loop over the opposite side, from element i on.
RECURSIVE scan(_, _, _, _, _)
scan(lock, i, o, remaining, ts) ==
    IF i > Len(lock)
    THEN [lock |-> lock, remaining_quantity |-> remaining, trades |-> ts]
    ELSE LET curr_order == lock[i] IN
         IF order_price_ok(o, curr_order) /\ remaining > 0
         THEN IF curr_order.quantity > remaining
              THEN [lock |-> [lock EXCEPT ![i].quantity = @ - remaining],
                    remaining_quantity |-> 0,
                    trades |-> Append(ts, Trade_new(curr_order.id, o.id,
                                          curr_order.price, remaining))]
              ELSE scan([lock EXCEPT ![i].quantity = 0], i + 1, o,
                        remaining - curr_order.quantity,
                        Append(ts, Trade_new(curr_order.id, o.id,
                                   curr_order.price, curr_order.quantity)))
         ELSE [lock |-> lock, remaining_quantity |-> remaining, trades |-> ts]

\* the filter closure with the bound off by one
has_quantity_above_one(o) == o.quantity > 1
has_any_quantity(o) == o.quantity >= 0

\* lines 68-72: keep orders only whose has some remaining quantity
has_quantity(o) == o.quantity > 0
retain(lock) == SelectSeq(lock, has_quantity)

(* ------------------------------ add_order ------------------------------- *)
\* Ord::cmp
cmp(x, y) == IF x < y THEN "Less" ELSE IF x = y THEN "Equal" ELSE "Greater"

\* the Buy closure with the price comparison the other way round
buy_compare_ascending(a, b) ==
    IF b.price = a.price THEN cmp(a.timestamp, b.timestamp)
                         ELSE cmp(a.price, b.price)

\* the Buy closure with the timestamp comparison the other way round
buy_compare_newest_first(a, b) ==
    IF b.price = a.price THEN cmp(b.timestamp, a.timestamp)
                         ELSE cmp(b.price, a.price)

\* lines 126-134: the closure given to sort_by in the Buy arm
buy_compare(a, b) ==
    IF b.price = a.price THEN cmp(a.timestamp, b.timestamp)
                         ELSE cmp(b.price, a.price)

\* lines 138-146: the closure given to sort_by in the Sell arm
sell_compare(a, b) ==
    IF b.price = a.price THEN cmp(a.timestamp, b.timestamp)
                         ELSE cmp(a.price, b.price)

compare(side, a, b) ==
    IF side = "Buy" THEN buy_compare(a, b) ELSE sell_compare(a, b)

\* slice::sort_by is a stable sort: x goes before the first element it is
\* strictly Less than, so elements that compare Equal keep their order.
RECURSIVE insert_sorted(_, _, _)
insert_sorted(s, x, side) ==
    IF s = << >> THEN << x >>
    ELSE IF compare(side, x, Head(s)) = "Less" THEN << x >> \o s
    ELSE << Head(s) >> \o insert_sorted(Tail(s), x, side)

RECURSIVE sort_by(_, _)
sort_by(s, side) ==
    IF s = << >> THEN << >>
    ELSE insert_sorted(sort_by(SubSeq(s, 1, Len(s) - 1), side), s[Len(s)], side)

\* lines 122-149: push, then sort with the comparator of the order's own side
add_order(lock, o) ==
    IF o.side = "Buy" THEN sort_by(Append(lock, o), "Buy")
                      ELSE sort_by(Append(lock, o), "Sell")

\* the order that rests, built with the submitted quantity
resting_order_full(o, remaining, now) ==
    Order_new(o.id, "Buy", o.price, o.quantity, now)

\* line 83: the order that rests.  Its side is the literal OrderSide::Buy and
\* its timestamp is read from the clock; it keeps the submission's id and price.
resting_order(o, remaining, now) ==
    Order_new(o.id, "Buy", o.price, remaining, now)

(* ------------------------------ best_order ------------------------------ *)
\* the loop of best_order without the test on the id
RECURSIVE same_price_quantity_any_id(_, _)
same_price_quantity_any_id(lock, i) ==
    IF i > Len(lock) THEN 0
    ELSE (IF lock[i].price = lock[1].price THEN lock[i].quantity ELSE 0)
         + same_price_quantity_any_id(lock, i + 1)

\* lines 111-115: the quantities added to lock[0]'s, elements i..Len(lock)
RECURSIVE same_price_quantity(_, _)
same_price_quantity(lock, i) ==
    IF i > Len(lock) THEN 0
    ELSE (IF lock[i].price = lock[1].price /\ lock[i].id # lock[1].id
          THEN lock[i].quantity ELSE 0)
         + same_price_quantity(lock, i + 1)

\* lines 98-118
best_order(lock) ==
    IF lock = << >> THEN None
    ELSE Some([price |-> lock[1].price,
               total_quantity |-> lock[1].quantity + same_price_quantity(lock, 1)])

(* ------------------------------- actions -------------------------------- *)
NoOrder == Order_new(0, "Buy", 0, 0, 0)

\* the locals of a caller that is in no call
NoCall == [order |-> NoOrder, side |-> "Buy", trades |-> << >>,
           remaining_quantity |-> 0, best |-> None]

\* RwLock::default(): nobody holds the lock
Unlocked == [writer |-> 0, readers |-> {}]

\* No task has started.
ConcIdle ==
    /\ locks = [s \in Sides |-> Unlocked]
    /\ queue = [s \in Sides |-> << >>]
    /\ pc = [p \in Callers |-> "idle"]
    /\ call = [p \in Callers |-> NoCall]
    /\ gap = [p \in Callers |-> {}]
    /\ submitted_quantity = 0
    /\ returned_quantity = 0

\* LimitOrderBook::new(), lines 16-21, and no call made yet.
EmptyBook ==
    /\ ConcIdle
    /\ buy_orders = << >>
    /\ sell_orders = << >>
    /\ clock = 0
    /\ submitted = 0
    /\ op = "idle"
    /\ order = NoOrder
    /\ trades = << >>
    /\ remaining_quantity = 0
    /\ opp_before = << >>
    /\ opp_scanned = << >>
    /\ own_before = << >>
    /\ rested = None
    /\ best = None

Init ==
    /\ log_enabled = TRUE
    /\ EmptyBook

\* One place_order call, lines 24-94 (through OrderBook::place_order, 154-156).
\* o is the argument; now is what the clock reads when the remainder is built.
PlaceOrderCall(o, now) ==
    LET opp == IF o.side = "Buy" THEN sell_orders ELSE buy_orders
        own == IF o.side = "Buy" THEN buy_orders ELSE sell_orders
        s == scan(opp, 1, o, o.quantity, << >>)
        opp_after == retain(s.lock)
        new == resting_order(o, s.remaining_quantity, now)
        own_after == IF s.remaining_quantity > 0 THEN add_order(own, new)
                                                 ELSE own
    IN  /\ buy_orders' = IF o.side = "Buy" THEN own_after ELSE opp_after
        /\ sell_orders' = IF o.side = "Buy" THEN opp_after ELSE own_after
        /\ clock' = now
        /\ op' = "place_order"
        /\ order' = o
        /\ trades' = s.trades
        /\ remaining_quantity' = s.remaining_quantity
        /\ opp_before' = opp
        /\ opp_scanned' = s.lock
        /\ own_before' = own
        /\ rested' = IF s.remaining_quantity > 0 THEN Some(new) ELSE None
        /\ best' = None
        /\ UNCHANGED cvars

PlaceOrder ==
    /\ op = "idle"
    /\ submitted < MaxOrders
    /\ \E side \in Sides, price \in Prices, quantity \in Quantities,
          timestamp \in Times, now \in current_unix_timestamp :
          PlaceOrderCall(Order_new(next_id, side, price, quantity, timestamp),
                         now)
    /\ submitted' = submitted + 1

\* best_buy / best_sell, lines 158-164
BestCall(side) ==
    /\ op = "idle"
    /\ op' = (IF side = "Buy" THEN "best_buy" ELSE "best_sell")
    /\ best' = best_order(IF side = "Buy" THEN buy_orders ELSE sell_orders)
    /\ UNCHANGED << buy_orders, sell_orders, clock, submitted, order, trades,
                    remaining_quantity, opp_before, opp_scanned, own_before,
                    rested >>
    /\ UNCHANGED cvars

BestBuy == BestCall("Buy")

BestSell == BestCall("Sell")

\* The caller takes the return value; the book is at rest again.
Return ==
    /\ op # "idle"
    /\ op' = "idle"
    /\ order' = NoOrder
    /\ trades' = << >>
    /\ remaining_quantity' = 0
    /\ opp_before' = << >>
    /\ opp_scanned' = << >>
    /\ own_before' = << >>
    /\ rested' = None
    /\ best' = None
    /\ UNCHANGED << buy_orders, sell_orders, clock, submitted >>
    /\ UNCHANGED cvars

Next == PlaceOrder \/ BestBuy \/ BestSell \/ Return

Spec == Init /\ [][Next]_vars

(* ------------------------- vocabulary of the claims --------------------- *)
Placed == op = "place_order"

OwnSide == IF order.side = "Buy" THEN buy_orders ELSE sell_orders
OppSide == IF order.side = "Buy" THEN sell_orders ELSE buy_orders

RECURSIVE TotalQuantity(_)
TotalQuantity(s) ==
    IF s = << >> THEN 0 ELSE Head(s).quantity + TotalQuantity(Tail(s))

Minimum(a, b) == IF a < b THEN a ELSE b

\* what the call took from the resting order at position j of the opposite side
Filled(j) == opp_before[j].quantity - opp_scanned[j].quantity
FullyConsumed(j) == opp_scanned[j].quantity = 0

\* The incoming order may trade at price p.
WithinLimit(p) ==
    IF order.side = "Buy" THEN p <= order.price ELSE p >= order.price

\* Resting order a was submitted before resting order b (ids are given in the
\* order of the submissions).
Earlier(a, b) == a.id < b.id

\* Priority among resting buy orders and among resting sell orders.
BuyPriority(a, b) ==
    a.price > b.price \/ (a.price = b.price /\ Earlier(a, b))
SellPriority(a, b) ==
    a.price < b.price \/ (a.price = b.price /\ Earlier(a, b))

\* The k-th trade is a fill of the resting order at position f[k].
TradeOf(f, k) ==
    /\ trades[k].maker_id = opp_before[f[k]].id
    /\ trades[k].price = opp_before[f[k]].price
    /\ trades[k].quantity = Filled(f[k])

\* The trades are fills of distinct resting orders, listed by priority, and no
\* resting order is filled while one of higher priority keeps quantity.
ConsumedInPriority(Priority(_, _)) ==
    /\ \E f \in [1..Len(trades) -> 1..Len(opp_before)] :
          /\ \A k \in 1..Len(trades) : TradeOf(f, k)
          /\ \A k, l \in 1..Len(trades) :
                k < l => Priority(opp_before[f[k]], opp_before[f[l]])
    /\ \A i, j \in 1..Len(opp_before) :
          (Filled(j) > 0 /\ Priority(opp_before[i], opp_before[j]))
              => FullyConsumed(i)

(* -------------------------------- claims -------------------------------- *)

\* C1: conservation per submission.  When place_order(order) has returned, the
\* quantities of the trades it returned plus the quantity its own side gained
\* (the new resting order, nothing if none was added) add up to order.quantity.
C1_Conservation ==
    Placed =>
        /\ TotalQuantity(trades)
             + (TotalQuantity(OwnSide) - TotalQuantity(own_before))
           = order.quantity
        /\ Len(OwnSide) - Len(own_before) = (IF remaining_quantity > 0 THEN 1 ELSE 0)

\* C1's case: a submission that is partly filled and rests with the remainder.
C1_Witness ==
    /\ Placed
    /\ Len(trades) >= 1
    /\ Len(OwnSide) = Len(own_before) + 1
    /\ TotalQuantity(trades) < order.quantity

\* C2: price-time priority for a Sell taker.  The trades of a Sell submission
\* are fills of resting buy orders in descending price, the earlier submitted
\* first among equal prices, and a buy order is filled only when every buy
\* order of higher priority was fully consumed by the same call.
C2_SellTakerPriority ==
    (Placed /\ order.side = "Sell") => ConsumedInPriority(BuyPriority)

\* C2's case: a Sell takes from two resting buy orders of the same price and
\* leaves part of the second.
C2_Witness ==
    /\ Placed /\ order.side = "Sell"
    /\ Len(trades) = 2
    /\ trades[1].price = trades[2].price
    /\ Len(buy_orders) = 1

\* C3: price-time priority for a Buy taker.  The trades of a Buy submission
\* are fills of resting sell orders in ascending price, the older first among
\* equal prices.
C3_BuyTakerPriority ==
    (Placed /\ order.side = "Buy") => ConsumedInPriority(SellPriority)

\* The prices at which orders rest in s, and the quantity resting at price p.
PricesOf(s) == { s[i].price : i \in DOMAIN s }
LowestPrice(s) == CHOOSE p \in PricesOf(s) : \A q \in PricesOf(s) : p <= q
HighestPrice(s) == CHOOSE p \in PricesOf(s) : \A q \in PricesOf(s) : p >= q

RECURSIVE QuantityAt(_, _)
QuantityAt(s, p) ==
    IF s = << >> THEN 0
    ELSE (IF Head(s).price = p THEN Head(s).quantity ELSE 0)
         + QuantityAt(Tail(s), p)

\* C4: best_sell returns None if no sell orders rest, otherwise the lowest
\* price among the resting sell orders with the sum of the quantities resting
\* at that price.
C4_BestSell ==
    op = "best_sell" =>
        best = IF sell_orders = << >> THEN None
               ELSE Some([price |-> LowestPrice(sell_orders),
                          total_quantity |->
                              QuantityAt(sell_orders, LowestPrice(sell_orders))])

\* C5: best_buy returns None if no buy orders rest, otherwise (the orders
\* having been submitted with distinct ids) the highest price among the
\* resting buy orders with the sum of the quantities resting at that price.
C5_BestBuy ==
    op = "best_buy" =>
        best = IF buy_orders = << >> THEN None
               ELSE Some([price |-> HighestPrice(buy_orders),
                          total_quantity |->
                              QuantityAt(buy_orders, HighestPrice(buy_orders))])

\* C5's case: best_buy on a book with two buy orders at the best price and one
\* below it.
C5_Witness ==
    /\ op = "best_buy"
    /\ Len(buy_orders) = 3
    /\ Cardinality(PricesOf(buy_orders)) = 2
    /\ QuantityAt(buy_orders, HighestPrice(buy_orders)) > buy_orders[1].quantity
    /\ best # None

\* C6: sell-side sortedness.  With no call in flight the sell sequence is in
\* ascending price, orders of equal price in ascending timestamp.
C6_SellSorted ==
    \A i, j \in DOMAIN sell_orders :
        i < j => \/ sell_orders[i].price < sell_orders[j].price
                 \/ /\ sell_orders[i].price = sell_orders[j].price
                    /\ sell_orders[i].timestamp <= sell_orders[j].timestamp

\* C7: buy-side sortedness.  With no call in flight the buy sequence is in
\* descending price, orders of equal price in ascending timestamp.
C7_BuySorted ==
    \A i, j \in DOMAIN buy_orders :
        i < j => \/ buy_orders[i].price > buy_orders[j].price
                 \/ /\ buy_orders[i].price = buy_orders[j].price
                    /\ buy_orders[i].timestamp <= buy_orders[j].timestamp

\* C7's case: a place_order call has just put a third buy order into a book
\* with two price levels, between an older order of its own price and an
\* order of a lower price.
C7_Witness ==
    /\ Placed /\ order.side = "Buy"
    /\ Len(own_before) = 2 /\ Len(buy_orders) = 3
    /\ own_before[1].price > own_before[2].price
    /\ buy_orders[2].id = order.id
    /\ buy_orders[1].price = buy_orders[2].price
    /\ buy_orders[1].timestamp < buy_orders[2].timestamp

\* C8: a remainder rests only after every compatible resting order has been
\* consumed.  When place_order(order) has added a resting remainder, no order
\* left on the opposite side is within the limit of the incoming order.
C8_RemainderAfterCompatible ==
    (Placed /\ Len(OwnSide) = Len(own_before) + 1) =>
        \A j \in DOMAIN OppSide : ~WithinLimit(OppSide[j].price)

\* The resting orders of s the incoming order may not trade with.
BeyondLimit(o) == ~WithinLimit(o.price)
Incompatible(s) == SelectSeq(s, BeyondLimit)

\* C9: the limit price is respected.  Every trade of a Buy submission has
\* price <= order.price, every trade of a Sell submission price >=
\* order.price, and the resting orders beyond the limit are neither filled
\* nor changed: the loop leaves them as they were and they are all still in
\* the book, in the same order, when the call returns.
C9_LimitRespected ==
    Placed =>
        /\ \A k \in DOMAIN trades : WithinLimit(trades[k].price)
        /\ \A j \in DOMAIN opp_before :
              BeyondLimit(opp_before[j]) => opp_scanned[j] = opp_before[j]
        /\ Incompatible(OppSide) = Incompatible(opp_before)

\* C9's case: a call that trades while an order beyond its limit rests on the
\* opposite side.
C9_Witness ==
    /\ Placed
    /\ Len(trades) >= 1
    /\ Incompatible(opp_before) # << >>

\* C10: the content of the trades.  The k-th trade of place_order(order) is
\* the fill of the k-th order that rested on the opposite side when the call
\* began: maker_id is that order's id, taker_id is order.id, price is that
\* order's price, and quantity is what the call took from that order, which
\* is the smaller of its quantity and the incoming quantity still unfilled,
\* and is positive.
C10_TradeContent ==
    Placed =>
        /\ Len(trades) <= Len(opp_before)
        /\ Len(opp_scanned) = Len(opp_before)
        /\ \A k \in DOMAIN trades :
              /\ trades[k].maker_id = opp_before[k].id
              /\ trades[k].taker_id = order.id
              /\ trades[k].price = opp_before[k].price
              /\ trades[k].quantity = Filled(k)
              /\ trades[k].quantity =
                    Minimum(opp_before[k].quantity,
                            order.quantity
                              - TotalQuantity(SubSeq(trades, 1, k - 1)))
              /\ trades[k].quantity > 0

\* C10's case: a call with two trades, the second a partial fill, at a maker
\* price that differs from the incoming order's price.
C10_Witness ==
    /\ Placed
    /\ Len(trades) = 2
    /\ trades[2].quantity < opp_before[2].quantity
    /\ trades[1].price # order.price
    /\ trades[1].maker_id # order.id

\* The orders of s that carry the id of the incoming order.
IsSubmission(o) == o.id = order.id
SubmissionIn(s) == SelectSeq(s, IsSubmission)

\* C11: the resting remainder keeps the submission's identity.  The order
\* place_order(order) inserts when quantity remains has id = order.id, side =
\* order.side, price = order.price and quantity = remaining and is stored in
\* the sequence of order.side; every order held in the sell sequence has side
\* Sell and every order held in the buy sequence has side Buy.
C11_RemainderIdentity ==
    /\ (Placed /\ remaining_quantity > 0) =>
          /\ Len(SubmissionIn(OwnSide)) = 1
          /\ SubmissionIn(OppSide) = << >>
          /\ SubmissionIn(OwnSide)[1].side = order.side
          /\ SubmissionIn(OwnSide)[1].price = order.price
          /\ SubmissionIn(OwnSide)[1].quantity = remaining_quantity
    /\ \A i \in DOMAIN sell_orders : sell_orders[i].side = "Sell"
    /\ \A i \in DOMAIN buy_orders : buy_orders[i].side = "Buy"

\* C12: an order's timestamp is assigned at creation and never changed.  The
\* order that rests after place_order(order) carries order.timestamp.
C12_TimestampKept ==
    (Placed /\ remaining_quantity > 0) =>
        \A i \in DOMAIN OwnSide :
            IsSubmission(OwnSide[i]) => OwnSide[i].timestamp = order.timestamp

\* C14: a place_order call with order.quantity = 0 returns no trade and leaves
\* both side sequences as they were.
C14_ZeroQuantity ==
    (Placed /\ order.quantity = 0) =>
        /\ trades = << >>
        /\ OppSide = opp_before
        /\ OwnSide = own_before

\* C14's case: a zero-quantity submission on a book that holds an order it
\* could trade with.
C14_Witness ==
    /\ Placed /\ order.quantity = 0
    /\ \E j \in DOMAIN opp_before : WithinLimit(opp_before[j].price)

\* The opposite-side positions the loop changed, and those it left in the book.
Changed == { j \in DOMAIN opp_before : opp_scanned[j] # opp_before[j] }
Reduced == { j \in Changed : opp_scanned[j].quantity > 0 }

\* Frame of the matching phase on the opposite side: a changed order keeps id,
\* side, price and timestamp; it is either removed, and then a trade filled its
\* whole quantity, or it is the only one reduced, and then it is the maker of
\* the last trade and lost that trade's quantity; the book holds the orders
\* that keep quantity, in their old order.
OppositeFrame ==
    /\ DOMAIN opp_scanned = DOMAIN opp_before
    /\ \A j \in Changed :
          /\ opp_scanned[j] = [opp_before[j] EXCEPT !.quantity = opp_scanned[j].quantity]
          /\ opp_scanned[j].quantity = 0 =>
                \E k \in DOMAIN trades :
                    /\ trades[k].maker_id = opp_before[j].id
                    /\ trades[k].quantity = opp_before[j].quantity
          /\ opp_scanned[j].quantity > 0 =>
                /\ trades # << >>
                /\ trades[Len(trades)].maker_id = opp_before[j].id
                /\ trades[Len(trades)].quantity = Filled(j)
    /\ Cardinality(Reduced) <= 1
    /\ OppSide = SelectSeq(opp_scanned, LAMBDA o : o.quantity > 0)

\* The own side gained exactly one order, with the full submitted quantity.
RestsInFull ==
    /\ Len(OwnSide) = Len(own_before) + 1
    /\ Len(SubmissionIn(OwnSide)) = 1
    /\ SubmissionIn(OwnSide)[1].quantity = order.quantity
    /\ SelectSeq(OwnSide, LAMBDA o : ~IsSubmission(o)) = own_before

\* C18 as claimed: frame of the matching phase; in particular a submission
\* that matches nothing leaves the opposite side unchanged and adds exactly
\* one order with its full quantity to its own side.
C18_MatchingFrame_AsClaimed ==
    Placed =>
        /\ OppositeFrame
        /\ trades = << >> => (OppSide = opp_before /\ RestsInFull)

\* C18, amended: ... a submission of quantity > 0 that matches nothing leaves
\* the opposite side unchanged and adds exactly one order with its full
\* quantity to its own side; one of quantity 0 adds none.
C18_MatchingFrame ==
    Placed =>
        /\ OppositeFrame
        /\ trades = << >> =>
              /\ OppSide = opp_before
              /\ order.quantity > 0 => RestsInFull
              /\ order.quantity = 0 => OwnSide = own_before

\* C18's case: a call that fills part of the first resting order and leaves a
\* second one behind it untouched.
C18_Witness ==
    /\ Placed
    /\ Len(trades) = 1
    /\ Len(opp_before) = 2 /\ Len(OppSide) = 2
    /\ Reduced = {1}
    /\ OppSide[2] = opp_before[2]


(* ------------------------- the concurrent view -------------------------- *)
(* Each caller is a task running one call at a time.  pc[p] is             *)
(*   "idle"       in no call                                               *)
(*   "lock_opp"   place_order: waiting for the opposite side, lines 25-28  *)
(*   "scan"       holds the opposite side, before the loop of line 32      *)
(*   "retain"     holds the opposite side, after the loop, before line 68  *)
(*   "lock_own"   holds nothing, waiting for the own side, lines 77-80     *)
(*   "add"        holds the own side, before line 81                       *)
(*   "log"        holds nothing, before line 90                            *)
(*   "log_buy"    holds buy_orders shared, inside line 90                  *)
(*   "log_next"   holds nothing, before line 91                            *)
(*   "log_sell"   holds sell_orders shared, inside line 91                 *)
(*   "best_wait"  best_order: waiting for the side, line 99                *)
(*   "best_read"  best_order: holds the side shared, result computed       *)

Opposite(side) == IF side = "Buy" THEN "Sell" ELSE "Buy"

Book(side) == IF side = "Buy" THEN buy_orders ELSE sell_orders

\* the guarded vector of side becomes v, the other one stays
SetBook(side, v) ==
    /\ buy_orders' = IF side = "Buy" THEN v ELSE buy_orders
    /\ sell_orders' = IF side = "Sell" THEN v ELSE sell_orders

\* The RwLock of tokio is fair: the tasks that cannot have the lock at once
\* wait in a first-in first-out queue, and nobody passes a waiting task.

\* a write guard can exist: nobody holds the lock
CanWrite(side) == locks[side].writer = 0 /\ locks[side].readers = {}

\* a read guard can exist: no writer holds the lock
CanRead(side) == locks[side].writer = 0

Queued(side) == { queue[side][i] : i \in DOMAIN queue[side] }

\* write().await ("w") or read().await ("r") of p returns
MayTake(side, p, mode) ==
    /\ IF mode = "w" THEN CanWrite(side) ELSE CanRead(side)
    /\ IF queue[side] = << >> THEN TRUE ELSE Head(queue[side]) = p

WriteLocked(side, p) == [locks EXCEPT ![side].writer = p]
ReadLocked(side, p) == [locks EXCEPT ![side].readers = @ \cup {p}]
Released(side, p) ==
    [locks EXCEPT ![side] = [writer |-> IF @.writer = p THEN 0 ELSE @.writer,
                             readers |-> @.readers \ {p}]]

\* p gets the guard and leaves the queue
Take(side, p, mode) ==
    /\ locks' = IF mode = "w" THEN WriteLocked(side, p)
                ELSE ReadLocked(side, p)
    /\ queue' = [queue EXCEPT ![side] = SelectSeq(@, LAMBDA q : q # p)]

\* the guard of p is dropped
Drop(side, p) ==
    /\ locks' = Released(side, p)
    /\ UNCHANGED queue

\* The callers that have finished matching and wait to rest on side.
BetweenPhases(side) ==
    { q \in Callers : pc[q] = "lock_own" /\ call[q].side = side }

\* event e happened on side while the callers of BetweenPhases(side) wait
Noted(side, e, p) ==
    [q \in Callers |->
        IF q # p /\ q \in BetweenPhases(side) THEN gap[q] \cup {e} ELSE gap[q]]

\* place_order_handler, handlers/order_book.rs 23-29: the request becomes an
\* Order stamped with the clock (17-21) and place_order is called (154-156).
Submit(p) ==
    /\ pc[p] = "idle"
    /\ submitted < ConcOrders
    /\ \E side \in Sides, price \in Prices, quantity \in Quantities,
          now \in current_unix_timestamp :
        /\ clock' = now
        /\ call' = [call EXCEPT ![p] =
                      [order |-> Order_new(next_id, side, price, quantity, now),
                       side |-> side, trades |-> << >>,
                       remaining_quantity |-> quantity, best |-> None]]
        /\ submitted_quantity' = submitted_quantity + quantity
    /\ submitted' = submitted + 1
    /\ pc' = [pc EXCEPT ![p] = "lock_opp"]
    /\ UNCHANGED << buy_orders, sell_orders, log_enabled, locks, queue, gap,
                    returned_quantity >>
    /\ UNCHANGED svars

\* LockOpposite taking both sides at once, which would make the phases atomic
LockBothSides(p) ==
    /\ pc[p] = "lock_opp"
    /\ \A side \in Sides : MayTake(side, p, "w")
    /\ locks' = [side \in Sides |-> [writer |-> p, readers |-> {}]]
    /\ queue' = [side \in Sides |->
                    SelectSeq(queue[side], LAMBDA q : q # p)]
    /\ pc' = [pc EXCEPT ![p] = "scan"]
    /\ UNCHANGED << log_enabled, call, gap, submitted_quantity,
                    returned_quantity >>
    /\ UNCHANGED << bvars, svars >>

\* lines 25-28: the write lock of the opposite side
LockOpposite(p) ==
    /\ pc[p] = "lock_opp"
    /\ MayTake(Opposite(call[p].side), p, "w")
    /\ Take(Opposite(call[p].side), p, "w")
    /\ pc' = [pc EXCEPT ![p] = "scan"]
    /\ UNCHANGED << log_enabled, call, gap, submitted_quantity,
                    returned_quantity >>
    /\ UNCHANGED << bvars, svars >>

\* Match over a copy of the opposite side: the fills are not written back
MatchOnCopy(p) ==
    /\ pc[p] = "scan"
    /\ LET s == scan(Book(Opposite(call[p].side)), 1, call[p].order,
                     call[p].order.quantity, << >>)
       IN  call' = [call EXCEPT ![p].trades = s.trades,
                                ![p].remaining_quantity =
                                     s.remaining_quantity]
    /\ pc' = [pc EXCEPT ![p] = "retain"]
    /\ UNCHANGED << log_enabled, locks, queue, gap, submitted_quantity,
                    returned_quantity >>
    /\ UNCHANGED << bvars, svars >>

\* lines 29-65: the loop over the opposite side, under its write lock
Match(p) ==
    /\ pc[p] = "scan"
    /\ LET side == Opposite(call[p].side)
           s == scan(Book(side), 1, call[p].order, call[p].order.quantity,
                     << >>)
       IN  /\ SetBook(side, s.lock)
           /\ call' = [call EXCEPT ![p].trades = s.trades,
                                   ![p].remaining_quantity =
                                        s.remaining_quantity]
    /\ pc' = [pc EXCEPT ![p] = "retain"]
    /\ UNCHANGED << clock, submitted, log_enabled, locks, queue, gap,
                    submitted_quantity, returned_quantity >>
    /\ UNCHANGED svars

\* FilterAndUnlock without drop(lock): the guard lives to the end of the call
FilterKeepingLock(p) ==
    /\ pc[p] = "retain"
    /\ SetBook(Opposite(call[p].side), retain(Book(Opposite(call[p].side))))
    /\ pc' = [pc EXCEPT ![p] =
                 IF call[p].remaining_quantity > 0 THEN "lock_own" ELSE "log"]
    /\ UNCHANGED << clock, submitted, log_enabled, locks, queue, call, gap,
                    submitted_quantity, returned_quantity >>
    /\ UNCHANGED svars

\* lines 68-73 and the test of line 76: the filled orders are removed and the
\* opposite side is released
FilterAndUnlock(p) ==
    /\ pc[p] = "retain"
    /\ LET side == Opposite(call[p].side)
       IN  /\ SetBook(side, retain(Book(side)))
           /\ Drop(side, p)
           /\ gap' = Noted(side, "matched", p)
    /\ pc' = [pc EXCEPT ![p] =
                 IF call[p].remaining_quantity > 0 THEN "lock_own" ELSE "log"]
    /\ UNCHANGED << clock, submitted, log_enabled, call, submitted_quantity,
                    returned_quantity >>
    /\ UNCHANGED svars

\* lines 77-80: the write lock of the own side
LockOwn(p) ==
    /\ pc[p] = "lock_own"
    /\ MayTake(call[p].side, p, "w")
    /\ Take(call[p].side, p, "w")
    /\ pc' = [pc EXCEPT ![p] = "add"]
    /\ gap' = [gap EXCEPT ![p] = {}]
    /\ UNCHANGED << log_enabled, call, submitted_quantity, returned_quantity >>
    /\ UNCHANGED << bvars, svars >>

\* Rest without drop(lock): the own side stays locked
RestKeepingLock(p) ==
    /\ pc[p] = "add"
    /\ \E now \in current_unix_timestamp :
        /\ clock' = now
        /\ SetBook(call[p].side,
                   add_order(Book(call[p].side),
                             resting_order(call[p].order,
                                           call[p].remaining_quantity, now)))
    /\ pc' = [pc EXCEPT ![p] = "log"]
    /\ UNCHANGED << submitted, log_enabled, locks, queue, call, gap,
                    submitted_quantity, returned_quantity >>
    /\ UNCHANGED svars

\* lines 81-86: the remainder is built, inserted, and the own side released
Rest(p) ==
    /\ pc[p] = "add"
    /\ LET side == call[p].side
       IN  /\ \E now \in current_unix_timestamp :
                /\ clock' = now
                /\ SetBook(side,
                           add_order(Book(side),
                                     resting_order(call[p].order,
                                                   call[p].remaining_quantity,
                                                   now)))
           /\ Drop(side, p)
           /\ gap' = Noted(side, "rested", p)
    /\ pc' = [pc EXCEPT ![p] = "log"]
    /\ UNCHANGED << submitted, log_enabled, call, submitted_quantity,
                    returned_quantity >>
    /\ UNCHANGED svars

\* line 90: info! formats buy_orders under its read lock
LogBuy(p) ==
    /\ pc[p] = "log"
    /\ log_enabled
    /\ MayTake("Buy", p, "r")
    /\ Take("Buy", p, "r")
    /\ pc' = [pc EXCEPT ![p] = "log_buy"]
    /\ UNCHANGED << log_enabled, call, gap, submitted_quantity,
                    returned_quantity >>
    /\ UNCHANGED << bvars, svars >>

\* end of the statement of line 90: the read guard is dropped
LogBuyDone(p) ==
    /\ pc[p] = "log_buy"
    /\ Drop("Buy", p)
    /\ pc' = [pc EXCEPT ![p] = "log_next"]
    /\ UNCHANGED << log_enabled, call, gap, submitted_quantity,
                    returned_quantity >>
    /\ UNCHANGED << bvars, svars >>

\* line 91: info! formats sell_orders under its read lock
LogSell(p) ==
    /\ pc[p] = "log_next"
    /\ MayTake("Sell", p, "r")
    /\ Take("Sell", p, "r")
    /\ pc' = [pc EXCEPT ![p] = "log_sell"]
    /\ UNCHANGED << log_enabled, call, gap, submitted_quantity,
                    returned_quantity >>
    /\ UNCHANGED << bvars, svars >>

\* line 93: the trades are returned to the caller
Returned(p) ==
    /\ returned_quantity' = returned_quantity + TotalQuantity(call[p].trades)
    /\ call' = [call EXCEPT ![p] = NoCall]
    /\ pc' = [pc EXCEPT ![p] = "idle"]

\* end of line 91 and line 93
FinishLogged(p) ==
    /\ pc[p] = "log_sell"
    /\ Drop("Sell", p)
    /\ Returned(p)
    /\ UNCHANGED << log_enabled, gap, submitted_quantity >>
    /\ UNCHANGED << bvars, svars >>

\* lines 89-93 when the log level filters info! out: no lock is taken
FinishUnlogged(p) ==
    /\ pc[p] = "log"
    /\ ~ log_enabled
    /\ Returned(p)
    /\ UNCHANGED << log_enabled, locks, queue, gap, submitted_quantity >>
    /\ UNCHANGED << bvars, svars >>

\* best_buy / best_sell, lines 158-164: best_order is called on one side
Query(p) ==
    /\ pc[p] = "idle"
    /\ \E side \in Sides : call' = [call EXCEPT ![p].side = side]
    /\ pc' = [pc EXCEPT ![p] = "best_wait"]
    /\ UNCHANGED << log_enabled, locks, queue, gap, submitted_quantity,
                    returned_quantity >>
    /\ UNCHANGED << bvars, svars >>

\* lines 99-117: the read lock is taken and the best level computed
QueryRead(p) ==
    /\ pc[p] = "best_wait"
    /\ MayTake(call[p].side, p, "r")
    /\ Take(call[p].side, p, "r")
    /\ call' = [call EXCEPT ![p].best = Some(best_order(Book(call[p].side)))]
    /\ gap' = Noted(call[p].side, "queried", p)
    /\ pc' = [pc EXCEPT ![p] = "best_read"]
    /\ UNCHANGED << log_enabled, submitted_quantity, returned_quantity >>
    /\ UNCHANGED << bvars, svars >>

\* line 118: the guard is dropped and the result returned
QueryDone(p) ==
    /\ pc[p] = "best_read"
    /\ Drop(call[p].side, p)
    /\ call' = [call EXCEPT ![p] = NoCall]
    /\ pc' = [pc EXCEPT ![p] = "idle"]
    /\ UNCHANGED << log_enabled, gap, submitted_quantity, returned_quantity >>
    /\ UNCHANGED << bvars, svars >>

\* the side p is about to lock and the kind of guard it asks for
Wanted(p) ==
    CASE pc[p] = "lock_opp" -> << Opposite(call[p].side), "w" >>
      [] pc[p] = "lock_own" -> << call[p].side, "w" >>
      [] pc[p] = "log" /\ log_enabled -> << "Buy", "r" >>
      [] pc[p] = "log_next" -> << "Sell", "r" >>
      [] pc[p] = "best_wait" -> << call[p].side, "r" >>
      [] OTHER -> << >>

\* write().await or read().await of p is pending: p joins the queue
Wait(p) ==
    /\ Wanted(p) # << >>
    /\ p \notin Queued(Wanted(p)[1])
    /\ ~ MayTake(Wanted(p)[1], p, Wanted(p)[2])
    /\ queue' = [queue EXCEPT ![Wanted(p)[1]] = Append(@, p)]
    /\ UNCHANGED << log_enabled, locks, pc, call, gap, submitted_quantity,
                    returned_quantity >>
    /\ UNCHANGED << bvars, svars >>

\* one step of caller p
Step(p) ==
    \/ Submit(p)
    \/ Wait(p)
    \/ LockOpposite(p)
    \/ Match(p)
    \/ FilterAndUnlock(p)
    \/ LockOwn(p)
    \/ Rest(p)
    \/ LogBuy(p)
    \/ LogBuyDone(p)
    \/ LogSell(p)
    \/ FinishLogged(p)
    \/ FinishUnlogged(p)
    \/ Query(p)
    \/ QueryRead(p)
    \/ QueryDone(p)

ConcInit ==
    /\ log_enabled \in BOOLEAN
    /\ EmptyBook

ConcNext == \E p \in Callers : Step(p)

ConcSpec == ConcInit /\ [][ConcNext]_vars


(* FairSpec is ConcSpec under fair scheduling.  A task that can run is     *)
(* polled by the tokio runtime, so the next step of a call is taken if it  *)
(* stays possible (WF); the fairness of the lock is in its queue.          *)
(* Starting a call is up to the clients: no fairness.                      *)
Runs(p) ==
    \/ Wait(p)
    \/ Match(p)
    \/ FilterAndUnlock(p)
    \/ Rest(p)
    \/ LogBuyDone(p)
    \/ FinishLogged(p)
    \/ FinishUnlogged(p)
    \/ QueryDone(p)

Acquires(p) ==
    \/ LockOpposite(p)
    \/ LockOwn(p)
    \/ LogBuy(p)
    \/ LogSell(p)
    \/ QueryRead(p)

Fairness == \A p \in Callers : WF_vars(Runs(p) \/ Acquires(p))

FairSpec == ConcSpec /\ Fairness

(* ------------------------- claims of the concurrent view ---------------- *)
InPlaceOrder(p) ==
    pc[p] \in {"lock_opp", "scan", "retain", "lock_own", "add", "log",
               "log_buy", "log_next", "log_sell"}

Ids(s) == { s[i].id : i \in DOMAIN s }

\* C13: no zero-quantity order rests: whenever no place_order call holds the
\* write lock of a side, every order of that side has quantity > 0, under any
\* interleaving of place_order and best_buy / best_sell calls.
C13_NoZeroQuantityRests ==
    \A side \in Sides :
        locks[side].writer = 0 =>
            \A i \in DOMAIN Book(side) : Book(side)[i].quantity > 0

\* a resting order was filled to 0 by p and is gone now that p has released
\* the side, while another caller is in the middle of its own call
C13_Witness ==
    \E p \in Callers, q \in Callers :
        /\ p # q
        /\ pc[p] \in {"lock_own", "log"}
        /\ pc[q] # "idle"
        /\ call[p].trades # << >>
        /\ locks[Opposite(call[p].side)].writer = 0
        /\ call[p].trades[1].maker_id \notin Ids(Book(Opposite(call[p].side)))


\* the side locks p holds, exclusively or shared
HeldBy(p) ==
    { side \in Sides : locks[side].writer = p \/ p \in locks[side].readers }

\* p holds at most one side lock, and while it matches it holds the opposite
\* side exclusively
OneLockOppositeFirst(p) ==
    /\ Cardinality(HeldBy(p)) <= 1
    /\ pc[p] = "lock_opp" => HeldBy(p) = {}
    /\ pc[p] \in {"scan", "retain"} =>
          locks[Opposite(call[p].side)].writer = p

\* C15 as stated: a place_order call holds at most one side lock at every
\* instant, first takes the opposite side exclusively and releases it, and
\* acquires the lock of the own side only if quantity remains after matching.
C15_LockDiscipline_AsClaimed ==
    \A p \in Callers :
        InPlaceOrder(p) =>
            /\ OneLockOppositeFirst(p)
            /\ call[p].side \in HeldBy(p) =>
                  /\ pc[p] \notin {"lock_opp", "scan", "retain"}
                  /\ call[p].remaining_quantity > 0

\* C15 amended: a place_order call holds at most one side lock at every
\* instant, first takes the opposite side exclusively and releases it, and
\* takes the own side exclusively only if quantity remains after matching;
\* after that, if info logging is enabled, it takes the buy side and then the
\* sell side shared, one at a time, whatever its side and its remainder.
C15_LockDiscipline ==
    \A p \in Callers :
        InPlaceOrder(p) =>
            /\ OneLockOppositeFirst(p)
            /\ \A side \in Sides :
                  /\ locks[side].writer = p <=>
                        \/ pc[p] \in {"scan", "retain"}
                              /\ side = Opposite(call[p].side)
                        \/ pc[p] = "add" /\ side = call[p].side
                  /\ p \in locks[side].readers <=>
                        \/ pc[p] = "log_buy" /\ side = "Buy"
                        \/ pc[p] = "log_sell" /\ side = "Sell"
            /\ pc[p] = "add" => call[p].remaining_quantity > 0
            /\ pc[p] \in {"log_buy", "log_next", "log_sell"} => log_enabled

\* a buy order that was matched in full holds the buy side shared
C15_Witness ==
    \E p \in Callers :
        /\ pc[p] = "log_buy"
        /\ call[p].side = "Buy"
        /\ call[p].trades # << >>
        /\ call[p].remaining_quantity = 0
        /\ HeldBy(p) = {"Buy"}


\* C17: the two phases of place_order are not jointly atomic.  Between the
\* release of the opposite side and the acquisition of the own side a call
\* holds no lock, its trades are made and its remainder is not in the book;
\* the calls of others recorded in gap are the ones made in that interval.
C17_PhasesNotAtomic ==
    \A p \in Callers :
        /\ pc[p] = "lock_own" =>
              /\ HeldBy(p) = {}
              /\ call[p].remaining_quantity > 0
              /\ call[p].order.id \notin Ids(Book(call[p].side))
              /\ \A side \in Sides : locks[side].writer # p
        /\ gap[p] # {} => pc[p] = "lock_own"

\* While A waits for its own side, B has rested a later order on that side
\* and now reads the best level of that side, which has B's order and lacks
\* A's remainder.
C17_Witness ==
    \E A \in Callers, B \in Callers :
        /\ A # B
        /\ pc[A] = "lock_own"
        /\ gap[A] = {"rested", "queried"}
        /\ pc[B] = "best_read"
        /\ call[B].side = call[A].side
        /\ call[B].best = Some(best_order(Book(call[A].side)))
        /\ call[A].order.id \notin Ids(Book(call[A].side))
        /\ \E id \in Ids(Book(call[A].side)) : id > call[A].order.id


\* no place_order call is in flight
AllReturned == \A p \in Callers : ~ InPlaceOrder(p)

\* C19: uncrossed book at rest: once all place_order calls have returned, if
\* both sides are non-empty the highest resting buy price is strictly lower
\* than the lowest resting sell price.
C19_UncrossedAtRest ==
    (AllReturned /\ buy_orders # << >> /\ sell_orders # << >>) =>
        HighestPrice(buy_orders) < LowestPrice(sell_orders)


\* C20: global conservation: whenever no place_order call is in flight, the
\* quantities resting on both sides plus twice the quantities of all trades
\* returned so far add up to the quantities of all submitted orders, and no
\* order id appears twice in the book.
C20_GlobalConservation ==
    AllReturned =>
        /\ TotalQuantity(buy_orders) + TotalQuantity(sell_orders)
              + 2 * returned_quantity = submitted_quantity
        /\ Cardinality(Ids(buy_orders) \cup Ids(sell_orders))
              = Len(buy_orders) + Len(sell_orders)

\* all orders are submitted and returned, some quantity was traded and
\* some quantity rests
C20_Witness ==
    /\ AllReturned
    /\ submitted = ConcOrders
    /\ returned_quantity > 0
    /\ TotalQuantity(buy_orders) + TotalQuantity(sell_orders) > 0


\* some call is in flight and no caller in a call can take a step
Deadlocked ==
    /\ \E p \in Callers : pc[p] # "idle"
    /\ \A p \in Callers : pc[p] # "idle" => ~ ENABLED Step(p)

\* C16: deadlock freedom and completion: under fair scheduling and fair lock
\* granting no reachable state is a deadlock, and every started place_order,
\* best_buy or best_sell call eventually returns.
C16_Completion ==
    /\ [] ~ Deadlocked
    /\ \A p \in Callers : (pc[p] # "idle") ~> (pc[p] = "idle")

\* a call waits in the queue of its own side while another call holds that
\* side exclusively for its matching
C16_Witness ==
    \E p \in Callers, q \in Callers :
        /\ pc[p] = "lock_own"
        /\ p \in Queued(call[p].side)
        /\ locks[call[p].side].writer = q
        /\ pc[q] \in {"scan", "retain"}

====
